---- MODULE Spec2Model ----
(***************************************************************************)
(* Prediction-market servers of the repository.                            *)
(*                                                                         *)
(* Two programs are modelled, each with its own specification:             *)
(*                                                                         *)
(*   Spec       the market-maker server (src/unnamed/part_002) on top of   *)
(*              its database helpers (src/unnamed/part_012): POST /bet,    *)
(*              POST /cashout, POST /admin/resolve, the periodic persist   *)
(*              and a process restart.  Every handler is synchronous, so   *)
(*              each is one atomic action; a database call that throws is  *)
(*              an input of the action (the failure point).                *)
(*                                                                         *)
(*   SpecTwoMarkets  the same server with two markets in storage and two   *)
(*              users, over fewer requests.                                *)
(*                                                                         *)
(*   SpecPricing  the pricing functions alone: POST /bet for any amount    *)
(*              on any pair of pools, then POST /cashout of the shares     *)
(*              bought.                                                    *)
(*                                                                         *)
(*   SpecLedger  the position ledger alone: upsertPosition and             *)
(*              reducePosition with any number of shares.                  *)
(*                                                                         *)
(*   SpecSweep  the pari-mutuel server (src/server.js lines 1-568) on top  *)
(*              of src/db.js: the settlement sweep resolvePredictions,     *)
(*              which suspends on its external fetches, interleaved with   *)
(*              POST /bet and POST /admin/resolve.                         *)
(*                                                                         *)
(*   SpecRoblox  the same sweep with a roblox market among the active      *)
(*              markets.                                                   *)
(*                                                                         *)
(*   SpecRefresh  refreshPredictions, that is resolvePredictions followed  *)
(*              by buildPredictions, with a roblox market.                 *)
(*                                                                         *)
(*   SpecIds    market creation, saveActive and a process restart of the   *)
(*              pari-mutuel server.                                        *)
(*                                                                         *)
(*   SpecPayout  the pari-mutuel settlement alone: the sweep and           *)
(*              POST /admin/resolve on every list of stored bets.          *)
(*                                                                         *)
(* Units: pool quantities and shares are counted in units of 0.04; the     *)
(* amount of a buy and the gross proceeds of a sale, which the code does   *)
(* not round, are counted in thousandths (0.001); payouts, which the code  *)
(* rounds to 2 decimals, are counted in cents.  The amounts of the bets of  *)
(* the pari-mutuel server are counted in thousandths as well.              *)
(***************************************************************************)
EXTENDS Integers, Sequences, FiniteSets, TLC

\* ---------------------------------------------------------------- bounds
MaxOps == 3
MaxOpsTwoMarkets == 2
MaxFailures == 1
MaxFailuresTwoMarkets == 0
MaxPool == 8
MaxSweeps == 1
MaxRequests == 2
MaxBetRows == 2
MaxTime == 2
MaxAmount == 100
MaxRefreshes == 2

\* ------------------------------------------------------- program constants
HouseFeePct == 5
MaxDoublings == 3

\* ------------------------------------------------------------ input sets
SideInputs == {"Yes", "No", "Maybe"}
Sides == {"Yes", "No"}
ResultInputs == {"Yes", "NoResult", "Bogus"}
AmountInputs == {0, 20, 80}
ShareInputs == {0, 1, 3}
KeyInputs == {"changeme", "wrong"}
ADMIN_KEY == "changeme"

AuthorizedAlways(adminKey) == TRUE

\* adminKey === ADMIN_KEY
Authorized(adminKey) == adminKey = ADMIN_KEY

NULL == "null"

\* getPosition finds no row
NoRow == -1

\* the immutable fields of the market rows: the two answers, and the liquidity
\* parameter b = 0.08, which is 2 units
Answer1(id) == "Yes"
Answer2(id) == "No"
LiquidityB(id) == 2

VARIABLES
  activeMarkets,     \* part_002: ids of the in-memory active list, in order
  resolvedMarkets,   \* part_002: ids of the in-memory resolved list, newest first
  market,            \* part_002: the in-memory market object of each id
  dbMarkets,         \* part_012: the markets table row of each id
  positions,         \* part_012: positions table, the shares of the row of each
                     \* (user, market, side) key, or NoRow
  bets,              \* part_012: bets table, in insertion order
  poolsAtResolve,    \* history: the pools a market had when its status became resolved
  lastOp,            \* the last request and its response
  opSeq,             \* number of requests handled so far
  failures           \* number of database calls that have thrown so far

ammVars == <<activeMarkets, resolvedMarkets, market, dbMarkets, positions, bets,
             poolsAtResolve>>

VARIABLES
  activePredictions,   \* server.js: the in-memory active list
  resolvedPredictions, \* server.js: the in-memory resolved list, newest first
  betRows,             \* db.js: bets table, in insertion order (row id = index)
  dbActive,            \* db.js: active_predictions table: rows and AUTOINCREMENT counter
  dbResolved,          \* db.js: resolved_predictions table, likewise
  nextPredictionId,    \* server.js: id counter of generated markets
  now,                 \* Date.now()
  pc,                  \* resolvePredictions: "idle", "loop" (running) or "fetch" (suspended)
  sweepIdx,            \* resolvePredictions: next index of the for-of iterator
  sweepNow,            \* resolvePredictions: const now
  remaining,           \* resolvePredictions: const remaining
  cur,                 \* resolvePredictions: the market p of the suspended iteration
  sweeps,              \* number of sweeps started so far
  lastFetch            \* the last completed fetch: its number, market id and outcome

sweepVars == <<activePredictions, resolvedPredictions, betRows, dbActive, dbResolved,
               nextPredictionId, now, pc, sweepIdx, sweepNow, remaining, cur, sweeps,
               lastFetch>>

vars == <<ammVars, sweepVars, lastOp, opSeq, failures>>

\* the users whose requests are considered: the user ids of the positions keys
Users == {k[1] : k \in DOMAIN positions}

\* the ids of the rows of the markets table, and the ids a request may carry
MarketIds == DOMAIN dbMarkets
IdInputs == MarketIds \cup {9}

\* ------------------------------------------------------------- arithmetic
Max(a, b) == IF a >= b THEN a ELSE b

\* Math.max(...S) of a nonempty set of numbers
SetMax(S) == CHOOSE x \in S : \A y \in S : y <= x

\* +(x).toFixed(2) of the rational n/d cents: the nearest whole cent
RoundDiv(n, d) == (2 * n + d) \div (2 * d)

\* a number of shares, each worth 1 when it wins, in thousandths
Thousandths(shares) == 40 * shares

AfterFeeNoFee(gross) == RoundDiv(gross, 10)

\* +(gross * (1 - HOUSE_FEE)).toFixed(2) of a gross given in thousandths, in cents
AfterFee(gross) == RoundDiv(gross * (100 - HouseFeePct), 1000)

\* ---------------------------------------------------------- pricing engine
\* 1000 * e^(k / b) for b = 2 units, k = 0 .. 19
ExpTable ==
  << 1000, 1649, 2718, 4482, 7389, 12182, 20086, 33115, 54598, 90017,
     148413, 244692, 403429, 665142, 1096633, 1808042, 2980958, 4914769,
     8103084, 13359727 >>

ExpQ(k) == ExpTable[k + 1]

\* 10000 * e^(x / b) for an amount or a gross of x thousandths, b = 2 units =
\* 80 thousandths, x = 0 .. 127
ExpGrossTable ==
  << 10000, 10126, 10253, 10382, 10513, 10645, 10779, 10914,
     11052, 11191, 11331, 11474, 11618, 11764, 11912, 12062,
     12214, 12368, 12523, 12681, 12840, 13002, 13165, 13331,
     13499, 13668, 13840, 14014, 14191, 14369, 14550, 14733,
     14918, 15106, 15296, 15488, 15683, 15880, 16080, 16282,
     16487, 16695, 16905, 17117, 17333, 17551, 17771, 17995,
     18221, 18450, 18682, 18917, 19155, 19396, 19640, 19887,
     20138, 20391, 20647, 20907, 21170, 21436, 21706, 21979,
     22255, 22535, 22819, 23106, 23396, 23691, 23989, 24290,
     24596, 24905, 25219, 25536, 25857, 26182, 26512, 26845,
     27183, 27525, 27871, 28222, 28577, 28936, 29300, 29668,
     30042, 30420, 30802, 31190, 31582, 31979, 32381, 32789,
     33201, 33619, 34042, 34470, 34903, 35342, 35787, 36237,
     36693, 37155, 37622, 38095, 38574, 39059, 39551, 40048,
     40552, 41062, 41579, 42102, 42631, 43167, 43710, 44260,
     44817, 45381, 45951, 46529, 47115, 47707, 48307, 48915 >>

ExpGross(g) == ExpGrossTable[g + 1]

\* 10000 * num / den, rounded down, computed without leaving 32 bits
ScaledRatio(num, den) == (num \div den) * 10000 + ((num % den) * 10000) \div den

PoolOf(q1, q2, sideKey) == IF sideKey = "answer1" THEN q1 ELSE q2
OtherOf(q1, q2, sideKey) == IF sideKey = "answer1" THEN q2 ELSE q1

priceForSideUnnormalised(q1, q2, sideKey) ==
  RoundDiv(10000 * ExpQ(PoolOf(q1, q2, sideKey)), 2 * ExpQ(OtherOf(q1, q2, sideKey)))

\* e^(pool_side/b) / (e^(q1/b) + e^(q2/b)), in ten-thousandths
priceForSide(q1, q2, sideKey) ==
  RoundDiv(10000 * ExpQ(PoolOf(q1, q2, sideKey)), ExpQ(q1) + ExpQ(q2))

\* the prices of the snapshot enrichMarket builds: p1 = priceForSide(.., "answer1"),
\* p2 = 1 - p1, each reported as a percentage with 2 decimals (in hundredths)
SnapshotPrices(m) ==
  LET p1 == priceForSide(m.q1, m.q2, "answer1")
  IN  [answer1 |-> p1, answer2 |-> 10000 - p1]

\* cost(pool_side + d, pool_other) - cost(q1, q2) <= amount, i.e.
\* e^((qs+d)/b) + e^(qo/b) <= e^(amount/b) * (e^(qs/b) + e^(qo/b))
CostWithin(q1, q2, sideKey, d, amount) ==
  LET qs == PoolOf(q1, q2, sideKey)
      qo == OtherOf(q1, q2, sideKey)
  IN  ScaledRatio(ExpQ(qs + d) + ExpQ(qo), ExpQ(qs) + ExpQ(qo)) <= ExpGross(amount)

RECURSIVE DoubleUp(_, _, _, _, _, _)
DoubleUp(q1, q2, sideKey, amount, hi, n) ==
  IF n = 0 \/ ~CostWithin(q1, q2, sideKey, hi, amount)
  THEN hi
  ELSE DoubleUp(q1, q2, sideKey, amount, 2 * hi, n - 1)

RECURSIVE Bisect(_, _, _, _, _, _)
Bisect(q1, q2, sideKey, amount, lo, hi) ==
  IF hi - lo <= 1
  THEN IF CostWithin(q1, q2, sideKey, hi, amount) THEN hi ELSE lo
  ELSE LET mid == (lo + hi) \div 2
       IN  IF CostWithin(q1, q2, sideKey, mid, amount)
           THEN Bisect(q1, q2, sideKey, amount, mid, hi)
           ELSE Bisect(q1, q2, sideKey, amount, lo, mid)

sharesForAmountGivesUp(q1, q2, sideKey, amount) ==
  LET hi == DoubleUp(q1, q2, sideKey, amount, 1, MaxDoublings)
  IN  IF amount <= 0 \/ CostWithin(q1, q2, sideKey, hi, amount) THEN 0
      ELSE Bisect(q1, q2, sideKey, amount, 0, hi)

sharesForAmountUpperBound(q1, q2, sideKey, amount) ==
  IF amount <= 0 THEN 0
  ELSE DoubleUp(q1, q2, sideKey, amount, 1, MaxDoublings)

sharesForAmount(q1, q2, sideKey, amount) ==
  IF amount <= 0 THEN 0
  ELSE Bisect(q1, q2, sideKey, amount, 0,
              DoubleUp(q1, q2, sideKey, amount, 1, MaxDoublings))

\* cost(q1, q2) - cost(pool_side - s clamped at 0, pool_other) in thousandths:
\* the largest g with e^(g/b) * (e^(qs'/b) + e^(qo/b)) <= e^(qs/b) + e^(qo/b)
RECURSIVE LogRatio(_, _, _)
LogRatio(num, den, g) ==
  IF ExpGross(g + 1) <= ScaledRatio(num, den)
  THEN LogRatio(num, den, g + 1)
  ELSE g

amountForSell(q1, q2, sideKey, s) ==
  LET qs == PoolOf(q1, q2, sideKey)
      qo == OtherOf(q1, q2, sideKey)
      qr == Max(0, qs - s)
  IN  LogRatio(ExpQ(qs) + ExpQ(qo), ExpQ(qr) + ExpQ(qo), 0)

\* ------------------------------------------------------------ db helpers
Range(s) == {s[i] : i \in 1..Len(s)}

RemoveAt(s, i) == SubSeq(s, 1, i - 1) \o SubSeq(s, i + 1, Len(s))

IndexOf(s, x) == CHOOSE i \in 1..Len(s) : s[i] = x /\ \A j \in 1..(i - 1) : s[j] # x

RECURSIVE AscSeq(_)
AscSeq(S) ==
  IF S = {} THEN <<>>
  ELSE LET lo == CHOOSE x \in S : \A y \in S : x <= y
       IN  <<lo>> \o AscSeq(S \ {lo})

RECURSIVE DescSeq(_)
DescSeq(S) ==
  IF S = {} THEN <<>>
  ELSE LET hi == CHOOSE x \in S : \A y \in S : x >= y
       IN  <<hi>> \o DescSeq(S \ {hi})

\* the row saveMarketRow writes for the market object m
MarketRow(m) == [q1 |-> m.q1, q2 |-> m.q2, status |-> m.status, result |-> m.result]

\* INSERT OR REPLACE of one market row
saveMarketRow(db, id, m) == [db EXCEPT ![id] = MarketRow(m)]

\* saveMarketRow for every active market; a save that throws is logged and skipped
persistActiveMarkets(db, mem, active, failSave) ==
  [id \in MarketIds |->
     IF id \in Range(active) /\ id \notin failSave THEN MarketRow(mem[id]) ELSE db[id]]

loadActiveMarkets(db) == AscSeq({id \in MarketIds : db[id].status = "open"})

loadResolvedMarkets(db) == DescSeq({id \in MarketIds : db[id].status = "resolved"})

BetRow(u, id, side, amount, shares, type) ==
  [userId |-> u, predictionId |-> id, choice |-> side, amount |-> amount,
   shares |-> shares, type |-> type, paidOut |-> FALSE]

saveBet(tbl, row) == Append(tbl, row)

\* a lookup that ignores the side
getPositionAnySide(pos, u, id, side) ==
  IF pos[<<u, id, "Yes">>] >= pos[<<u, id, "No">>]
  THEN pos[<<u, id, "Yes">>] ELSE pos[<<u, id, "No">>]

\* SELECT * FROM positions WHERE userId = ? AND marketId = ? AND side = ?: the
\* shares of the row, or NoRow
getPosition(pos, u, id, side) == pos[<<u, id, side>>]

upsertPositionInsertOnly(pos, u, id, side, additionalShares) ==
  [pos EXCEPT ![<<u, id, side>>] = IF @ = NoRow THEN additionalShares ELSE @]

upsertPositionOverwrite(pos, u, id, side, additionalShares) ==
  [pos EXCEPT ![<<u, id, side>>] = additionalShares]

\* UPDATE shares = shares + ? of the existing row, or INSERT of a new row
upsertPosition(pos, u, id, side, additionalShares) ==
  [pos EXCEPT ![<<u, id, side>>] =
     IF @ = NoRow THEN additionalShares ELSE @ + additionalShares]

reducePositionKeepsRow(pos, u, id, side, reduceShares) ==
  IF getPosition(pos, u, id, side) = NoRow THEN pos
  ELSE [pos EXCEPT ![<<u, id, side>>] = Max(0, @ - reduceShares)]

\* newShares = Math.max(0, pos.shares - reduceShares); DELETE at 0, else UPDATE
reducePosition(pos, u, id, side, reduceShares) ==
  IF getPosition(pos, u, id, side) = NoRow THEN pos
  ELSE LET newShares == Max(0, pos[<<u, id, side>>] - reduceShares)
       IN  [pos EXCEPT ![<<u, id, side>>] = IF newShares = 0 THEN NoRow ELSE newShares]

getPositionsByMarket(pos, id) ==
  {k \in DOMAIN pos : k[2] = id /\ pos[k] # NoRow}

\* ------------------------------------------------------------- responses
\* the request's route and market id, and the response's status, error text and
\* payout fields
Response(op, id, code, error, payout, payouts) ==
  [op |-> op, id |-> id, code |-> code, error |-> error, payout |-> payout,
   payouts |-> payouts]

NoOp == Response("none", 0, 0, NULL, 0, {})

\* the pari-mutuel server's variables while the market-maker server is checked
\* a table with an INTEGER PRIMARY KEY AUTOINCREMENT id: its rows in id order and
\* the largest id it has ever given out (sqlite_sequence)
Table(rows, seq) == [rows |-> rows, seq |-> seq]

SweepIdle ==
  /\ activePredictions = <<>>
  /\ resolvedPredictions = <<>>
  /\ betRows = <<>>
  /\ dbActive = Table(<<>>, 0)
  /\ dbResolved = Table(<<>>, 0)
  /\ nextPredictionId = 1
  /\ now = 0
  /\ pc = "idle"
  /\ sweepIdx = 1
  /\ sweepNow = 0
  /\ remaining = <<>>
  /\ cur = 0
  /\ sweeps = 0
  /\ lastFetch = [seq |-> 0, id |-> 0, outcome |-> NULL]

\* --------------------------------------------------------------- Init
\* the state after the module-level loads, with open markets ids in storage
\* and requests from users
InitWith(users, ids) ==
  /\ dbMarkets = [id \in ids |->
                    [q1 |-> 0, q2 |-> 0, status |-> "open", result |-> NULL]]
  /\ market = dbMarkets
  /\ activeMarkets = loadActiveMarkets(dbMarkets)
  /\ resolvedMarkets = loadResolvedMarkets(dbMarkets)
  /\ positions = [k \in users \X ids \X SideInputs |-> NoRow]
  /\ bets = <<>>
  /\ poolsAtResolve = [id \in ids |-> <<>>]
  /\ lastOp = NoOp
  /\ opSeq = 0
  /\ failures = 0
  /\ SweepIdle

Init == InitWith({"u1"}, {1})

InitTwoMarkets == InitWith({"u1", "u2"}, {1, 2})

\* the two pool quantities of a market object or row
Pools(m) == <<m.q1, m.q2>>

\* the history variable records the pools of a market at the step in which its
\* in-memory status first becomes resolved
RecordResolve ==
  poolsAtResolve' =
    [id \in MarketIds |->
       IF poolsAtResolve[id] = <<>> /\ market'[id].status = "resolved"
       THEN Pools(market'[id])
       ELSE poolsAtResolve[id]]

\* market.status && market.status !== "open"
MarketClosedNever(m) == FALSE

MarketClosed(m) == m.status # "open"

\* ------------------------------------------------------------ POST /bet
TooSmallNever(deltaShares) == FALSE

\* deltaShares <= 0
TooSmall(deltaShares) == deltaShares <= 0

SideKeyLenient(id, side) ==
  IF side = Answer1(id) THEN "answer1" ELSE "answer2"

\* side === market.Answer1 ? "answer1" : side === market.Answer2 ? "answer2" : null
SideKey(id, side) ==
  IF side = Answer1(id) THEN "answer1"
  ELSE IF side = Answer2(id) THEN "answer2" ELSE NULL

AddToPool(m, sideKey, d) ==
  IF sideKey = "answer1" THEN [m EXCEPT !.q1 = @ + d] ELSE [m EXCEPT !.q2 = @ + d]

BetHandler(u, id, side, amount, fail, failSave) ==
  LET Reply(code, error) ==
        Response("bet", id, code, error, 0, {})
      Reject(code, error) ==
        /\ lastOp' = Reply(code, error)
        /\ UNCHANGED <<activeMarkets, resolvedMarkets, market, dbMarkets, positions, bets>>
  IN
  IF amount <= 0 THEN Reject(400, "Invalid amount")
  ELSE IF id \notin Range(activeMarkets) THEN Reject(404, "Market not found or closed")
  ELSE IF MarketClosed(market[id]) THEN Reject(400, "Market closed")
  ELSE IF SideKey(id, side) = NULL THEN Reject(400, "Invalid side")
  ELSE
    LET sideKey == SideKey(id, side)
        deltaShares == sharesForAmount(market[id].q1, market[id].q2, sideKey, amount)
        mem == [market EXCEPT ![id] = AddToPool(@, sideKey, deltaShares)]
    IN
    IF TooSmall(deltaShares) THEN Reject(400, "Amount too small to buy shares")
    ELSE
      /\ PoolOf(mem[id].q1, mem[id].q2, sideKey) <= MaxPool
      /\ market' = mem
      /\ UNCHANGED <<activeMarkets, resolvedMarkets>>
      /\ bets' = IF fail = "saveBet" THEN bets
                 ELSE saveBet(bets, BetRow(u, id, side, amount, deltaShares, "buy"))
      /\ positions' = IF fail \in {"saveBet", "upsertPosition"} THEN positions
                      ELSE upsertPosition(positions, u, id, side, deltaShares)
      /\ dbMarkets' = IF fail \in {"saveBet", "upsertPosition"} THEN dbMarkets
                      ELSE persistActiveMarkets(dbMarkets, mem, activeMarkets, failSave)
      /\ lastOp' = IF fail = "none" THEN Reply(200, "ok")
                   ELSE Reply(500, "Internal server error")

\* a request is counted, and so is the database call that throws in it: a throw
\* inside the handler ends it with a 500, a throw inside persistActiveMarkets is
\* logged and the handler goes on
Thrown(fail, failSave) ==
  /\ fail # "none" => lastOp'.code = 500
  /\ failSave # {} => lastOp'.code = 200

\* the number of requests, and of throwing database calls, of a run: fewer with
\* two markets in storage
OpLimit == IF Cardinality(MarketIds) > 1 THEN MaxOpsTwoMarkets ELSE MaxOps

FailureLimit == IF Cardinality(MarketIds) > 1 THEN MaxFailuresTwoMarkets ELSE MaxFailures

Counted(fail, failSave) ==
  /\ opSeq < OpLimit
  /\ opSeq' = opSeq + 1
  /\ failures' = failures + (IF fail = "none" /\ failSave = {} THEN 0 ELSE 1)
  /\ failures' <= FailureLimit
  /\ UNCHANGED sweepVars

Bet ==
  \E u \in Users, id \in IdInputs, side \in SideInputs, amount \in AmountInputs,
     fail \in {"none", "saveBet", "upsertPosition", "enrichMarket"},
     failSave \in {{}, MarketIds} :
    /\ fail # "none" => failSave = {}
    /\ Counted(fail, failSave)
    /\ BetHandler(u, id, side, amount, fail, failSave)
    /\ Thrown(fail, failSave)
    /\ RecordResolve

\* --------------------------------------------------------- POST /cashout
TakeFromPoolUnclamped(m, sideKey, s) ==
  IF sideKey = "answer1" THEN [m EXCEPT !.q1 = @ - s] ELSE [m EXCEPT !.q2 = @ - s]

\* market[sideKey] = Math.max(0, market[sideKey] - s)
TakeFromPool(m, sideKey, s) ==
  IF sideKey = "answer1" THEN [m EXCEPT !.q1 = Max(0, @ - s)]
  ELSE [m EXCEPT !.q2 = Max(0, @ - s)]

CashoutHandler(u, id, side, s, fail, failSave) ==
  LET Reply(code, error, payout) == Response("cashout", id, code, error, payout, {})
      Reject(code, error) ==
        /\ lastOp' = Reply(code, error, 0)
        /\ UNCHANGED <<activeMarkets, resolvedMarkets, market, dbMarkets, positions, bets>>
  IN
  IF s <= 0 THEN Reject(400, "Invalid shares")
  ELSE IF id \notin Range(activeMarkets) THEN Reject(404, "Market not found")
  ELSE IF MarketClosed(market[id]) THEN Reject(400, "Market closed")
  ELSE IF fail = "getPosition" THEN Reject(500, "Internal server error")
  ELSE IF getPosition(positions, u, id, side) = NoRow
            \/ getPosition(positions, u, id, side) < s
  THEN Reject(400, "Not enough shares")
  ELSE
    LET sideKey == IF side = Answer1(id) THEN "answer1" ELSE "answer2"
        gross == amountForSell(market[id].q1, market[id].q2, sideKey, s)
        payout == AfterFee(gross)
        mem == [market EXCEPT ![id] = TakeFromPool(@, sideKey, s)]
    IN
      /\ market' = mem
      /\ UNCHANGED <<activeMarkets, resolvedMarkets>>
      /\ positions' = IF fail = "reducePosition" THEN positions
                      ELSE reducePosition(positions, u, id, side, s)
      /\ bets' = IF fail \in {"reducePosition", "saveBet"} THEN bets
                 ELSE saveBet(bets, BetRow(u, id, side, payout, s, "sell"))
      /\ dbMarkets' = IF fail \in {"reducePosition", "saveBet"} THEN dbMarkets
                      ELSE persistActiveMarkets(dbMarkets, mem, activeMarkets, failSave)
      /\ lastOp' = IF fail = "none" THEN Reply(200, "ok", payout)
                   ELSE Reply(500, "Internal server error", 0)

Cashout ==
  \E u \in Users, id \in IdInputs, side \in SideInputs, s \in ShareInputs,
     fail \in {"none", "getPosition", "reducePosition", "saveBet", "enrichMarket"},
     failSave \in {{}, MarketIds} :
    /\ fail # "none" => failSave = {}
    /\ Counted(fail, failSave)
    /\ CashoutHandler(u, id, side, s, fail, failSave)
    /\ Thrown(fail, failSave)
    /\ RecordResolve

\* ----------------------------------------------------- POST /admin/resolve
\* the payouts entry of a winning position row
PayoutEntry(pos, k) ==
  [userId |-> k[1], shares |-> pos[k], payout |-> AfterFee(Thousandths(pos[k]))]

\* the position rows the payout loop pays and clears
Winners(pos, id, result) == {k \in getPositionsByMarket(pos, id) : k[3] = result}

\* reducePosition(p.userId, market.id, p.side, Number(p.shares)) of every winner
ClearWinners(pos, id, result) ==
  [k \in DOMAIN pos |->
     IF k \in Winners(pos, id, result)
     THEN reducePosition(pos, k[1], k[2], k[3], pos[k])[k]
     ELSE pos[k]]

\* fail = "reducePosition": the first reducePosition call of the loop throws
ResolveHandler(adminKey, id, result, fail) ==
  LET Reply(code, error, payouts) == Response("resolve", id, code, error, 0, payouts)
      Reject(code, error) ==
        /\ lastOp' = Reply(code, error, {})
        /\ UNCHANGED <<activeMarkets, resolvedMarkets, market, dbMarkets, positions, bets>>
  IN
  IF ~Authorized(adminKey) THEN Reject(403, "Unauthorized")
  ELSE IF id \notin Range(activeMarkets) THEN Reject(404, "Market not found")
  ELSE
    LET idx == IndexOf(activeMarkets, id)
        mem == [market EXCEPT ![id].status = "resolved", ![id].result = result]
        winners == Winners(positions, id, result)
        payouts == {PayoutEntry(positions, k) : k \in winners}
        thrown == IF fail = "reducePosition" /\ winners = {} THEN "none" ELSE fail
    IN
      /\ market' = mem
      /\ UNCHANGED bets
      /\ positions' = IF thrown \in {"getPositionsByMarket", "reducePosition"}
                      THEN positions
                      ELSE ClearWinners(positions, id, result)
      /\ resolvedMarkets' = IF thrown \in {"getPositionsByMarket", "reducePosition"}
                            THEN resolvedMarkets
                            ELSE <<id>> \o resolvedMarkets
      /\ dbMarkets' = IF thrown = "none"
                      THEN saveMarketRow(dbMarkets, id, mem[id])
                      ELSE dbMarkets
      /\ activeMarkets' = IF thrown = "none" THEN RemoveAt(activeMarkets, idx)
                          ELSE activeMarkets
      /\ lastOp' = IF thrown = "none" THEN Reply(200, "ok", payouts)
                   ELSE Reply(500, "Internal server error", {})

Resolve ==
  \E adminKey \in KeyInputs, id \in IdInputs, result \in ResultInputs,
     fail \in {"none", "getPositionsByMarket", "reducePosition", "saveMarketRow"} :
    /\ Counted(fail, {})
    /\ ResolveHandler(adminKey, id, result, fail)
    /\ Thrown(fail, {})
    /\ RecordResolve

\* ------------------------------------------- setInterval: periodic persist
PeriodicPersist ==
  \E failSave \in {{}, MarketIds} :
    /\ failures' = failures + (IF failSave = {} THEN 0 ELSE 1)
    /\ failures' <= FailureLimit
    /\ dbMarkets' = persistActiveMarkets(dbMarkets, market, activeMarkets, failSave)
    /\ UNCHANGED <<activeMarkets, resolvedMarkets, market, positions, bets, lastOp, opSeq>>
    /\ RecordResolve
    /\ UNCHANGED sweepVars

\* ------------------------------------------------------- process restart
\* the module-level loads run again; the in-memory objects are lost
Restart ==
  /\ activeMarkets' = loadActiveMarkets(dbMarkets)
  /\ resolvedMarkets' = loadResolvedMarkets(dbMarkets)
  /\ market' = dbMarkets
  /\ UNCHANGED <<dbMarkets, positions, bets, lastOp, opSeq, failures>>
  /\ RecordResolve
  /\ UNCHANGED sweepVars

Next == Bet \/ Cashout \/ Resolve \/ PeriodicPersist \/ Restart

Spec == Init /\ [][Next]_vars

SpecTwoMarkets == InitTwoMarkets /\ [][Next]_vars

\* ------------------------------------------- the pricing functions alone
\* sharesForAmount and amountForSell applied by the handlers of /bet and
\* /cashout to every pair of pools and every amount: user u2 holds the shares
\* that make up the pools, user u1 buys for some amount and sells back what the
\* buy yielded
PricingAmounts == (-1)..MaxAmount

PoolRow(q) == IF q > 0 THEN q ELSE NoRow

PricingInit ==
  \E q1 \in 0..MaxPool, q2 \in 0..MaxPool :
    /\ dbMarkets = [id \in {1} |->
                      [q1 |-> q1, q2 |-> q2, status |-> "open", result |-> NULL]]
    /\ market = dbMarkets
    /\ activeMarkets = loadActiveMarkets(dbMarkets)
    /\ resolvedMarkets = loadResolvedMarkets(dbMarkets)
    /\ positions = [k \in {"u1", "u2"} \X {1} \X SideInputs |->
                      IF k[1] = "u1" \/ k[3] \notin Sides THEN NoRow
                      ELSE IF k[3] = Answer1(1) THEN PoolRow(q1) ELSE PoolRow(q2)]
    /\ bets = <<>>
    /\ poolsAtResolve = [id \in {1} |-> <<>>]
    /\ lastOp = NoOp
    /\ opSeq = 0
    /\ failures = 0
    /\ SweepIdle

BuyAny ==
  \E side \in Sides, amount \in PricingAmounts :
    /\ lastOp = NoOp
    /\ Counted("none", {})
    /\ BetHandler("u1", 1, side, amount, "none", {})
    /\ RecordResolve

\* the shares sold are the shares of the buy record just written
SellBack ==
  /\ lastOp.op = "bet"
  /\ lastOp.code = 200
  /\ Counted("none", {})
  /\ CashoutHandler("u1", 1, bets[Len(bets)].choice, bets[Len(bets)].shares, "none", {})
  /\ RecordResolve

PricingNext == BuyAny \/ SellBack

SpecPricing == PricingInit /\ [][PricingNext]_vars

\* ------------------------------------------------- the position ledger alone
\* upsertPosition and reducePosition of db.js called with any user, side and
\* number of shares; lastOp records the function and what it returned
ShareDeltas == {1, 2, 3}

LedgerInit == InitWith({"u1", "u2"}, {1})

LedgerCall(op, id, returned) == Response(op, id, 0, returned, 0, {})

AddShares ==
  \E u \in Users, id \in MarketIds, side \in Sides, delta \in ShareDeltas :
    /\ Counted("none", {})
    /\ positions' = upsertPosition(positions, u, id, side, delta)
    /\ lastOp' = LedgerCall("upsertPosition", id, "id")
    /\ UNCHANGED <<activeMarkets, resolvedMarkets, market, dbMarkets, bets, poolsAtResolve>>

\* if (!pos) return false; ...; return true
RemoveShares ==
  \E u \in Users, id \in MarketIds, side \in Sides, delta \in ShareDeltas :
    /\ Counted("none", {})
    /\ positions' = reducePosition(positions, u, id, side, delta)
    /\ lastOp' = LedgerCall("reducePosition", id,
                            IF getPosition(positions, u, id, side) = NoRow
                            THEN "false" ELSE "true")
    /\ UNCHANGED <<activeMarkets, resolvedMarkets, market, dbMarkets, bets, poolsAtResolve>>

LedgerNext == AddShares \/ RemoveShares

SpecLedger == LedgerInit /\ [][LedgerNext]_vars

\* ======================================================= pari-mutuel server
NoResult == "No Result"
ChoiceInputs == {"yes", NoResult}
SweepResultInputs == {"Yes", "No", NoResult}
StakeInputs == {0, 1000, 2000}
Bettors == {"u1"}
PredictionIdInputs == {1, 2, 9}

\* String(x).toLowerCase() on the strings of the model
ToLower(x) ==
  CASE x = "Yes" -> "yes"
    [] x = "No" -> "no"
    [] x = NoResult -> "no result"
    [] OTHER -> x

Ids(preds) == {preds[i].id : i \in 1..Len(preds)}

RECURSIVE SumOver(_, _)
SumOver(rows, S) ==
  IF S = {} THEN 0
  ELSE LET i == CHOOSE x \in S : TRUE
       IN  rows[i].amount + SumOver(rows, S \ {i})

\* db.js getBetsByPrediction: the ids of the rows of one market
getBetsByPrediction(rows, id) == {i \in 1..Len(rows) : rows[i].predictionId = id}

\* bets.filter(b => String(b.choice).toLowerCase() === String(result).toLowerCase())
WinningBets(rows, id, result) ==
  {i \in getBetsByPrediction(rows, id) : ToLower(rows[i].choice) = ToLower(result)}

PariPayoutRoundedUp(amount, winnersTotal, totalPot) ==
  (amount * totalPot * (100 - HouseFeePct) + 1000 * winnersTotal - 1)
    \div (1000 * winnersTotal)

\* +(share * poolAfterFee).toFixed(2), in cents, of amounts in thousandths
PariPayout(amount, winnersTotal, totalPot) ==
  (amount * totalPot * (100 - HouseFeePct) + 500 * winnersTotal)
    \div (1000 * winnersTotal)

\* the pari-mutuel payout list of a market settled with result
PayoutList(rows, id, result) ==
  LET all == getBetsByPrediction(rows, id)
      winners == WinningBets(rows, id, result)
      totalPot == SumOver(rows, all)
      winnersTotal == SumOver(rows, winners)
  IN  IF winners # {} /\ winnersTotal > 0
      THEN {[betId |-> i, userId |-> rows[i].userId, choice |-> rows[i].choice,
             amount |-> rows[i].amount,
             payout |-> PariPayout(rows[i].amount, winnersTotal, totalPot)] : i \in winners}
      ELSE {}

\* db.js markBetsPaid: UPDATE bets SET paidOut = 1 for each id, in one transaction;
\* marks counts the updates a row has received
markBetsPaid(rows, betIds) ==
  [i \in 1..Len(rows) |->
     IF i \in betIds THEN [rows[i] EXCEPT !.paidOut = TRUE, !.marks = @ + 1] ELSE rows[i]]

\* the resolved record { ...p, result, payoutSummary }; by tells the sweep's
\* payoutSummary (with totals and odds) from the admin handler's (without)
ResolvedRecord(p, result, payoutList, by) ==
  [id |-> p.id, source |-> p.source, tag |-> p.tag, expires |-> p.expires,
   result |-> result, winners |-> payoutList, winnerCount |-> Cardinality(payoutList),
   by |-> by]

\* INSERT of rows whose column list has no id: each row gets the next id of
\* the table
InsertAll(tbl, rows) ==
  Table(tbl.rows \o [i \in 1..Len(rows) |-> [rows[i] EXCEPT !.id = tbl.seq + i]],
        tbl.seq + Len(rows))

\* the columns of an active_predictions row
ActiveRow(p) == [id |-> p.id, source |-> p.source, tag |-> p.tag, expires |-> p.expires]

\* the columns of a resolved_predictions row: the payout summary is not stored
ResolvedRow(rec) ==
  [id |-> rec.id, source |-> rec.source, tag |-> rec.tag, expires |-> rec.expires,
   result |-> rec.result]

\* db.js saveActive: DELETE, then the inserts in one transaction
saveActive(db, preds, fail) ==
  CASE fail = "saveActive.delete" -> db
    [] fail = "saveActive.insert" -> Table(<<>>, db.seq)
    [] OTHER -> InsertAll(Table(<<>>, db.seq), [i \in 1..Len(preds) |-> ActiveRow(preds[i])])

\* db.js loadActive: SELECT * FROM active_predictions
loadActive(db) == db.rows

\* db.js saveResolved: one INSERT
saveResolved(db, rec, fail) ==
  IF fail = "saveResolved" THEN db ELSE InsertAll(db, <<ResolvedRow(rec)>>)

\* db.js loadResolved: SELECT * FROM resolved_predictions ORDER BY id DESC LIMIT 50
\* (the tables here stay below the limit)
loadResolved(db) == [i \in 1..Len(db.rows) |-> db.rows[Len(db.rows) + 1 - i]]

DedupeKey(p) == <<p.source, p.tag>>

RECURSIVE dedupePredictions(_)
dedupePredictions(preds) ==
  IF preds = <<>> THEN <<>>
  ELSE LET front == dedupePredictions(SubSeq(preds, 1, Len(preds) - 1))
           last == preds[Len(preds)]
       IN  IF \E i \in 1..Len(front) : DedupeKey(front[i]) = DedupeKey(last)
           THEN front
           ELSE Append(front, last)

Prediction(id, source, tag, expires) ==
  [id |-> id, source |-> source, tag |-> tag, expires |-> expires]

\* the state loaded from storage when it holds the active markets preds
SweepInitWithBets(preds, rows) ==
  /\ activePredictions = preds
  /\ dbActive = Table(activePredictions, Len(preds))
  /\ resolvedPredictions = <<>>
  /\ dbResolved = Table(<<>>, 0)
  /\ betRows = rows
  /\ nextPredictionId = Len(preds) + 1
  /\ now = 0
  /\ pc = "idle"
  /\ sweepIdx = 1
  /\ sweepNow = 0
  /\ remaining = <<>>
  /\ cur = 0
  /\ sweeps = 0
  /\ lastFetch = [seq |-> 0, id |-> 0, outcome |-> NULL]
  /\ lastOp = NoOp
  /\ opSeq = 0
  /\ failures = 0
  /\ dbMarkets = [id \in {1} |->
                    [q1 |-> 0, q2 |-> 0, status |-> "open", result |-> NULL]]
  /\ market = dbMarkets
  /\ activeMarkets = <<>>
  /\ resolvedMarkets = <<>>
  /\ positions = [k \in {"u1"} \X {1} \X SideInputs |-> NoRow]
  /\ bets = <<>>
  /\ poolsAtResolve = [id \in {1} |-> <<>>]

SweepInitWith(preds) == SweepInitWithBets(preds, <<>>)

\* a request handler runs only while the sweep is idle or suspended in a fetch,
\* of resolvePredictions or of buildPredictions
HandlerMayRun == pc \in {"idle", "fetch", "build"}

Failed(fail) ==
  /\ failures' = failures + (IF fail = "none" THEN 0 ELSE 1)
  /\ failures' <= MaxFailures

\* ------------------------------------------------- server.js POST /bet
\* the bet is saved; building the snapshot then throws (the liquidity is read
\* from a pending promise), so the response is a 500
PlaceBetHandler(u, id, choice, amount, fail) ==
  LET Reply(code, error) == Response("bet", id, code, error, 0, {})
  IN
  IF amount <= 0
  THEN lastOp' = Reply(400, "Invalid predictionId or amount") /\ UNCHANGED betRows
  ELSE IF id \notin Ids(activePredictions)
  THEN lastOp' = Reply(404, "Prediction not found or closed") /\ UNCHANGED betRows
  ELSE IF fail = "saveBet"
  THEN lastOp' = Reply(500, "Failed to save bet") /\ UNCHANGED betRows
  ELSE /\ Len(betRows) < MaxBetRows
       /\ betRows' = Append(betRows,
                        [userId |-> u, predictionId |-> id, choice |-> choice,
                         amount |-> amount, paidOut |-> FALSE, marks |-> 0])
       /\ lastOp' = Reply(500, "Internal server error")

PlaceBet ==
  \E u \in Bettors, id \in PredictionIdInputs, choice \in ChoiceInputs, amount \in StakeInputs,
     fail \in {"none", "saveBet"} :
    /\ HandlerMayRun
    /\ opSeq < MaxRequests
    /\ opSeq' = opSeq + 1
    /\ Failed(fail)
    /\ PlaceBetHandler(u, id, choice, amount, fail)
    /\ fail = "saveBet" => lastOp'.error = "Failed to save bet"
    /\ UNCHANGED <<activePredictions, resolvedPredictions, dbActive, dbResolved,
                   nextPredictionId, now, pc, sweepIdx, sweepNow, remaining, cur,
                   sweeps, lastFetch>>
    /\ UNCHANGED ammVars

\* ---------------------------------------- server.js POST /admin/resolve
ManualResolveHandler(adminKey, id, result, fail) ==
  LET Reply(code, error, payouts) == Response("resolve", id, code, error, 0, payouts)
      Reject(code, error) ==
        /\ lastOp' = Reply(code, error, {})
        /\ UNCHANGED <<activePredictions, resolvedPredictions, betRows, dbActive, dbResolved>>
  IN
  IF ~Authorized(adminKey) THEN Reject(403, "Unauthorized")
  ELSE IF id \notin Ids(activePredictions) THEN Reject(404, "Prediction not found")
  ELSE
    LET idx == CHOOSE i \in 1..Len(activePredictions) :
                 /\ activePredictions[i].id = id
                 /\ \A j \in 1..(i - 1) : activePredictions[j].id # id
        p == activePredictions[idx]
        payoutList == PayoutList(betRows, id, result)
        rec == ResolvedRecord(p, result, payoutList, "admin")
        active == RemoveAt(activePredictions, idx)
    IN
    IF fail = "markBetsPaid" /\ payoutList # {}
    THEN Reject(500, "Internal server error")
    ELSE
      /\ betRows' = markBetsPaid(betRows, {w.betId : w \in payoutList})
      /\ activePredictions' = active
      /\ resolvedPredictions' = <<rec>> \o resolvedPredictions
      /\ dbActive' = saveActive(dbActive, active, fail)
      /\ dbResolved' = IF fail \in {"saveActive.delete", "saveActive.insert"}
                       THEN dbResolved
                       ELSE saveResolved(dbResolved, rec, fail)
      /\ lastOp' = Reply(200, "ok", {})

ManualResolve ==
  \E adminKey \in KeyInputs, id \in PredictionIdInputs, result \in SweepResultInputs,
     fail \in {"none", "markBetsPaid", "saveActive.delete", "saveActive.insert",
               "saveResolved"} :
    /\ HandlerMayRun
    /\ opSeq < MaxRequests
    /\ opSeq' = opSeq + 1
    /\ Failed(fail)
    /\ ManualResolveHandler(adminKey, id, result, fail)
    /\ fail = "markBetsPaid" => lastOp'.code = 500
    /\ fail \notin {"none", "markBetsPaid"} => lastOp'.code = 200
    /\ UNCHANGED <<nextPredictionId, now, pc, sweepIdx, sweepNow, remaining, cur,
                   sweeps, lastFetch>>
    /\ UNCHANGED ammVars

\* ------------------------------------------------------------ the clock
Tick ==
  /\ HandlerMayRun
  /\ now < MaxTime
  /\ now' = now + 1
  /\ UNCHANGED <<activePredictions, resolvedPredictions, betRows, dbActive, dbResolved,
                 nextPredictionId, pc, sweepIdx, sweepNow, remaining, cur, sweeps,
                 lastFetch, lastOp, opSeq, failures>>
  /\ UNCHANGED ammVars

\* ------------------------------------------- server.js resolvePredictions
\* setInterval fires refreshPredictions: const now, const remaining, the iterator
SweepStartUpTo(limit) ==
  /\ pc = "idle"
  /\ sweeps < limit
  /\ sweeps' = sweeps + 1
  /\ pc' = "loop"
  /\ sweepNow' = now
  /\ remaining' = <<>>
  /\ sweepIdx' = 1
  /\ UNCHANGED <<activePredictions, resolvedPredictions, betRows, dbActive, dbResolved,
                 nextPredictionId, now, cur, lastFetch, lastOp, opSeq, failures>>
  /\ UNCHANGED ammVars

SweepStart == SweepStartUpTo(MaxSweeps)

\* one iteration of the for-of loop up to its await: an unexpired market is kept,
\* an expired one suspends the sweep in its fetch
SweepIterate ==
  /\ pc = "loop"
  /\ sweepIdx <= Len(activePredictions)
  /\ LET p == activePredictions[sweepIdx]
     IN  /\ sweepIdx' = sweepIdx + 1
         /\ IF p.source # "roblox" /\ sweepNow < p.expires
            THEN /\ remaining' = Append(remaining, p)
                 /\ UNCHANGED <<pc, cur>>
            ELSE /\ cur' = p
                 /\ pc' = "fetch"
                 /\ UNCHANGED remaining
  /\ UNCHANGED <<activePredictions, resolvedPredictions, betRows, dbActive, dbResolved,
                 nextPredictionId, now, sweepNow, sweeps, lastFetch, lastOp, opSeq,
                 failures>>
  /\ UNCHANGED ammVars

\* the result the loop body derives from the outcome of the fetch
FetchedResult(outcome) ==
  CASE outcome \in {"over", "up"} -> "Yes"
    [] outcome \in {"under", "down"} -> "No"
    [] OTHER -> NoResult

\* what the fetch for market p can bring: the weather over or under the target,
\* or nothing; the asset of a roblox market with its RAP up, down or unchanged,
\* or a list without the asset; or it throws
FetchOutcomes(p) ==
  IF p.source = "roblox"
  THEN {"up", "down", "unchanged", "missing", "throw"}
  ELSE {"over", "under", "nodata", "throw"}

\* the key (asset and RAP) of the fresh market opened when the RAP of a roblox
\* market has changed
RapAfter == [tag \in {"hat-100"} |-> "hat-120"]

\* the fetch of the suspended iteration completes (or throws) and the rest of
\* the loop body runs: payouts, markBetsPaid, saveResolved, the in-memory archive
SweepFetched ==
  /\ pc = "fetch"
  /\ \E outcome \in FetchOutcomes(cur), fail \in {"none", "markBetsPaid", "saveResolved"} :
       /\ Failed(fail)
       /\ IF outcome = "unchanged"
          THEN /\ fail = "none"
               /\ remaining' = Append(remaining, cur)
               /\ UNCHANGED <<betRows, dbResolved, resolvedPredictions, nextPredictionId>>
          ELSE LET result == FetchedResult(outcome)
                   payoutList == PayoutList(betRows, cur.id, result)
                   rec == ResolvedRecord(cur, result, payoutList, "sweep")
               IN  /\ outcome \in {"up", "down"} => cur.tag \in DOMAIN RapAfter
                   /\ IF outcome \in {"up", "down"}
                      THEN /\ remaining' =
                                Append(remaining,
                                       Prediction(nextPredictionId, "roblox",
                                                  RapAfter[cur.tag],
                                                  sweepNow + MaxTime + 1))
                           /\ nextPredictionId' = nextPredictionId + 1
                      ELSE UNCHANGED <<remaining, nextPredictionId>>
                   /\ fail = "markBetsPaid" => payoutList # {}
                   /\ betRows' = IF fail = "markBetsPaid" THEN betRows
                                  ELSE markBetsPaid(betRows, {w.betId : w \in payoutList})
                   /\ dbResolved' = saveResolved(dbResolved, rec, fail)
                   /\ resolvedPredictions' = <<rec>> \o resolvedPredictions
       /\ lastFetch' = [seq |-> lastFetch.seq + 1, id |-> cur.id, outcome |-> outcome]
  /\ pc' = "loop"
  /\ UNCHANGED <<activePredictions, dbActive, now, sweepIdx, sweepNow, cur, sweeps,
                 lastOp, opSeq>>
  /\ UNCHANGED ammVars

\* the loop is over: the active list is replaced by remaining and saved
SweepFinishTo(next) ==
  \E fail \in {"none", "saveActive.delete", "saveActive.insert"} :
    /\ pc = "loop"
    /\ sweepIdx > Len(activePredictions)
    /\ Failed(fail)
    /\ activePredictions' = dedupePredictions(remaining)
    /\ dbActive' = saveActive(dbActive, activePredictions', fail)
    /\ pc' = next
    /\ UNCHANGED <<resolvedPredictions, betRows, dbResolved, nextPredictionId, now,
                   sweepIdx, sweepNow, remaining, cur, sweeps, lastFetch, lastOp, opSeq>>
    /\ UNCHANGED ammVars

SweepFinish == SweepFinishTo("idle")

\* two weather markets, the first of which expires after the second
SweepInit ==
  SweepInitWith(<< Prediction(1, "weather", "LA", 2),
                   Prediction(2, "weather", "London", 1) >>)

\* a roblox market, which expires 9999 hours after its creation, and a weather
\* market
RobloxInit ==
  SweepInitWith(<< Prediction(1, "roblox", "hat-100", MaxTime + 1),
                   Prediction(2, "weather", "LA", 1) >>)

SweepNext ==
  PlaceBet \/ ManualResolve \/ Tick \/ SweepStart \/ SweepIterate \/ SweepFetched
    \/ SweepFinish

SpecSweep == SweepInit /\ [][SweepNext]_vars

SpecRoblox == RobloxInit /\ [][SweepNext]_vars

\* ------------------------- server.js refreshPredictions with a roblox market
\* the asset with the RAP the fetch of buildPredictions can bring, or a throw
RapFetched == {"hat-100", "hat-120", "throw"}

\* buildRobloxPredictions: a market with the next id for the fetched asset and
\* RAP, unless an active market has that asset and that RAP
buildRobloxPredictions(fetched, active, nextId, t) ==
  IF fetched = "throw"
       \/ \E i \in 1..Len(active) : active[i].source = "roblox" /\ active[i].tag = fetched
  THEN <<>>
  ELSE <<Prediction(nextId, "roblox", fetched, t + MaxTime + 1)>>

\* one roblox market
RefreshInit == SweepInitWith(<< Prediction(1, "roblox", "hat-100", MaxTime + 1) >>)

RefreshStart == SweepStartUpTo(MaxRefreshes)

\* resolvePredictions returns and refreshPredictions awaits buildPredictions
ResolveDone == SweepFinishTo("build")

\* the fetch of buildPredictions completes: the new markets are appended, the
\* list is deduplicated and saved
BuildRoblox ==
  \E fetched \in RapFetched :
    LET newPredictions ==
          buildRobloxPredictions(fetched, activePredictions, nextPredictionId, now)
    IN  /\ pc = "build"
        /\ activePredictions' = dedupePredictions(activePredictions \o newPredictions)
        /\ nextPredictionId' = nextPredictionId + Len(newPredictions)
        /\ dbActive' = saveActive(dbActive, activePredictions', "none")
        /\ pc' = "idle"
        /\ UNCHANGED <<resolvedPredictions, betRows, dbResolved, now, sweepIdx, sweepNow,
                       remaining, cur, sweeps, lastFetch, lastOp, opSeq, failures>>
        /\ UNCHANGED ammVars

RefreshNext ==
  PlaceBet \/ RefreshStart \/ SweepIterate \/ SweepFetched \/ ResolveDone \/ BuildRoblox

SpecRefresh == RefreshInit /\ [][RefreshNext]_vars

\* ------------------------------------------ the pari-mutuel settlement alone
\* the payout computation of resolvePredictions and of /admin/resolve applied to
\* every list of up to MaxBetRows stored bets on one expired market
PayoutStakes == {6, 1000}
PayoutChoices == {"yes", "No"}

StoredBets ==
  UNION {[1..n -> [userId : Bettors, predictionId : {1}, choice : PayoutChoices,
                   amount : PayoutStakes, paidOut : {FALSE}, marks : {0}]]
           : n \in 0..MaxBetRows}

PayoutInit ==
  \E rows \in StoredBets :
    SweepInitWithBets(<< Prediction(1, "weather", "LA", 0) >>, rows)

PayoutNext ==
  ManualResolve \/ SweepStart \/ SweepIterate \/ SweepFetched \/ SweepFinish

SpecPayout == PayoutInit /\ [][PayoutNext]_vars

\* ============================================ pari-mutuel server: market ids
\* the markets the fetched data can give rise to, in the order of the builders
MarketTags == <<"LA", "London", "Tokyo">>

\* the markets that exist or have existed, in memory or in storage
Offered ==
  {DedupeKey(r) : r \in Range(activePredictions) \cup Range(resolvedPredictions)
                        \cup Range(dbActive.rows) \cup Range(dbResolved.rows)}

\* buildWeatherPredictions: a market with the next id for each fetched city in
\* chosen for which none exists yet
RECURSIVE buildWeatherPredictions(_, _, _, _)
buildWeatherPredictions(chosen, i, nextId, t) ==
  IF i > Len(MarketTags) THEN <<>>
  ELSE IF MarketTags[i] \in chosen
       THEN <<Prediction(nextId, "weather", MarketTags[i], t + 1)>>
              \o buildWeatherPredictions(chosen, i + 1, nextId + 1, t)
       ELSE buildWeatherPredictions(chosen, i + 1, nextId, t)

\* the state after the module-level loads on an empty database
IdsInit ==
  /\ SweepIdle
  /\ lastOp = NoOp
  /\ opSeq = 0
  /\ failures = 0
  /\ dbMarkets = [id \in {1} |->
                    [q1 |-> 0, q2 |-> 0, status |-> "open", result |-> NULL]]
  /\ market = dbMarkets
  /\ activeMarkets = <<>>
  /\ resolvedMarkets = <<>>
  /\ positions = [k \in {"u1"} \X {1} \X SideInputs |-> NoRow]
  /\ bets = <<>>
  /\ poolsAtResolve = [id \in {1} |-> <<>>]

\* buildPredictions with the cities in chosen fetched, none of which was offered
\* before: the new markets are appended, the list is deduplicated and saved
BuildPredictions(active, nextId, db, chosen) ==
  LET newPredictions == buildWeatherPredictions(chosen, 1, nextId, now)
  IN  /\ activePredictions' = dedupePredictions(active \o newPredictions)
      /\ nextPredictionId' = nextId + Len(newPredictions)
      /\ dbActive' = saveActive(db, activePredictions', "none")

\* the process starts, for the first time or again: the module-level loads, then
\* init(), which builds markets when none was loaded
StartServer ==
  \E chosen \in SUBSET (Range(MarketTags) \ {k[2] : k \in Offered}) :
    LET active == loadActive(dbActive)
        nextId == IF Len(active) > 0
                  THEN SetMax({active[i].id : i \in 1..Len(active)}) + 1
                  ELSE 1
    IN  /\ pc = "idle"
        /\ resolvedPredictions' = loadResolved(dbResolved)
        /\ IF Len(active) = 0
           THEN BuildPredictions(active, nextId, dbActive, chosen)
           ELSE /\ chosen = {}
                /\ activePredictions' = active
                /\ nextPredictionId' = nextId
                /\ UNCHANGED dbActive
        /\ UNCHANGED <<betRows, dbResolved, now, pc, sweepIdx, sweepNow, remaining, cur,
                       sweeps, lastFetch, lastOp, opSeq, failures>>
        /\ UNCHANGED ammVars

\* refreshPredictions while no market has expired: resolvePredictions keeps
\* every market and saves the list, then buildPredictions runs
Refresh ==
  \E chosen \in SUBSET (Range(MarketTags) \ {k[2] : k \in Offered}) :
    /\ pc = "idle"
    /\ sweeps < MaxSweeps
    /\ sweeps' = sweeps + 1
    /\ \A i \in 1..Len(activePredictions) : now < activePredictions[i].expires
    /\ BuildPredictions(dedupePredictions(activePredictions), nextPredictionId,
                        saveActive(dbActive, dedupePredictions(activePredictions), "none"),
                        chosen)
    /\ UNCHANGED <<resolvedPredictions, betRows, dbResolved, now, pc, sweepIdx, sweepNow,
                   remaining, cur, lastFetch, lastOp, opSeq, failures>>
    /\ UNCHANGED ammVars

IdsNext == StartServer \/ Refresh \/ PlaceBet \/ ManualResolve

SpecIds == IdsInit /\ [][IdsNext]_vars

\* ================================================================ claims
\* a request was handled in this step
Handled == opSeq' = opSeq + 1

AmmState == <<activeMarkets, resolvedMarkets, market, dbMarkets, positions, bets>>

RECURSIVE SharesHeld(_, _, _, _)
SharesHeld(pos, id, side, us) ==
  IF us = {} THEN 0
  ELSE LET u == CHOOSE x \in us : TRUE
       IN  Max(0, pos[<<u, id, side>>]) + SharesHeld(pos, id, side, us \ {u})

PoolQ(m, side) == IF side = "Yes" THEN m.q1 ELSE m.q2

\* C1: once a market has been settled, no later resolution of the same market id
\* succeeds (none archives it again) and no wager row that is already paidOut is
\* marked paid a second time.
C1_ResolveOnlyOnce ==
  [][ /\ Len(resolvedPredictions') > Len(resolvedPredictions)
         => resolvedPredictions'[1].id \notin Ids(resolvedPredictions)
      /\ \A i \in 1..Len(betRows) :
           betRows[i].paidOut => betRows'[i].marks = betRows[i].marks ]_vars

\* a trade request, well-formed in its amount, on a market that is already resolved
TradeOnResolved ==
  /\ Handled
  /\ lastOp'.op \in {"bet", "cashout"}
  /\ lastOp'.id \in MarketIds
  /\ market[lastOp'.id].status = "resolved" \/ dbMarkets[lastOp'.id].status = "resolved"

C3_SweepSerialized ==
  /\ \A i, j \in 1..Len(resolvedPredictions) :
       i # j => resolvedPredictions[i].id # resolvedPredictions[j].id
  /\ \A i \in 1..Len(betRows) : betRows[i].marks <= 1
  /\ pc = "idle" => Ids(activePredictions) \cap Ids(resolvedPredictions) = {}

\* C4: a Resolve attempt that fails part-way leaves nothing behind: the market,
\* the positions, the wager records and the stored row are as before the attempt.
C4_ResolveAllOrNothing ==
  [][ (Handled /\ lastOp'.op = "resolve" /\ lastOp'.code = 500)
        => UNCHANGED AmmState ]_vars

\* C5: when the fetch for an expired market throws during a sweep, that market
\* is not resolved in that sweep: nothing is archived or paid and the market is
\* kept for the next sweep.
C5_FetchFailureAbandons ==
  [][ (lastFetch'.seq # lastFetch.seq /\ lastFetch'.outcome = "throw")
        => /\ resolvedPredictions' = resolvedPredictions
           /\ dbResolved' = dbResolved
           /\ betRows' = betRows
           /\ lastFetch'.id \in Ids(remaining') ]_vars

\* C6: a Buy or Sell, also one in which a step throws, changes a market's pool by
\* exactly the amount by which it changes the positions on that side of that market.
C6_PoolMatchesLedger ==
  [][ (Handled /\ lastOp'.op \in {"bet", "cashout"})
        => \A id \in MarketIds, side \in Sides :
             PoolQ(market'[id], side) - PoolQ(market[id], side)
               = SharesHeld(positions', id, side, Users)
                   - SharesHeld(positions, id, side, Users) ]_vars

\* C7: after a successful Resolve the ledger holds no position for that market.
C7_ResolveClearsAll ==
  (lastOp.op = "resolve" /\ lastOp.code = 200)
    => getPositionsByMarket(positions, lastOp.id) = {}

C9_NoResultPaysNobody ==
  \A i \in 1..Len(resolvedPredictions) :
    resolvedPredictions[i].result = NoResult => resolvedPredictions[i].winners = {}

\* the shape of status and result in a set of market objects or rows
StatusShape(ms) ==
  \A id \in MarketIds :
    /\ ms[id].status \in {"open", "resolved"}
    /\ ms[id].result = NULL <=> ms[id].status = "open"
    /\ ms[id].status = "resolved"
         => ms[id].result \in {Answer1(id), Answer2(id), "NoResult"}

\* C10: status only moves open -> resolved, only a Resolve moves it, result is
\* null exactly while open, is set to answerA, answerB or NoResult and never
\* changes afterwards.
C10_StatusOneWay ==
  [][ /\ StatusShape(market')
      /\ StatusShape(dbMarkets')
      /\ \A id \in MarketIds :
           /\ market[id].status = "resolved"
                => market'[id].status = "resolved" /\ market'[id].result = market[id].result
           /\ market'[id].status # market[id].status
                => Handled /\ lastOp'.op = "resolve" /\ lastOp'.id = id ]_vars

\* C11: both pools of every market are >= 0 in every state, and once a market's
\* status has become resolved its two pool quantities never change again.
C11_PoolsFrozenOnceResolved ==
  \A id \in MarketIds :
    /\ market[id].q1 >= 0 /\ market[id].q2 >= 0
    /\ dbMarkets[id].q1 >= 0 /\ dbMarkets[id].q2 >= 0
    /\ poolsAtResolve[id] # <<>> => Pools(market[id]) = poolsAtResolve[id]

\* C12: every row of the positions table has shares > 0: shares never go
\* negative and a row whose shares reach exactly 0 is deleted (one row per key is
\* the table's UNIQUE(userId, marketId, side), the domain of positions).
C12_PositionRowsPositive ==
  \A k \in DOMAIN positions : positions[k] = NoRow \/ positions[k] > 0

\* the last wager is a sell that took the seller's whole position: the row is gone
C12_Witness ==
  /\ lastOp.op = "cashout" /\ lastOp.code = 200
  /\ bets # <<>>
  /\ LET b == bets[Len(bets)]
     IN  /\ b.type = "sell"
         /\ positions[<<b.userId, b.predictionId, b.choice>>] = NoRow
  /\ \E k \in DOMAIN positions : positions[k] # NoRow

\* the shares a user holds on a side of a market: those of the row, 0 without one
Held(pos, u, id, side) ==
  IF pos[<<u, id, side>>] # NoRow THEN pos[<<u, id, side>>] ELSE 0

\* C13: a cashout of s > 0 shares by a user who holds fewer than s shares of that
\* side in an open market is answered 400 "Not enough shares" and changes no pool,
\* position or wager record (no database call throwing).
C13_SellMoreThanHeld ==
  [][ \A u \in Users, id \in MarketIds, side \in SideInputs, s \in ShareInputs :
        ( /\ Handled
          /\ CashoutHandler(u, id, side, s, "none", {})
          /\ s > 0
          /\ id \in Range(activeMarkets)
          /\ market[id].status = "open"
          /\ Held(positions, u, id, side) < s )
        => /\ lastOp'.code = 400
           /\ lastOp'.error = "Not enough shares"
           /\ UNCHANGED AmmState ]_vars

\* a cashout was refused for lack of shares on a market in which positions exist
C13_Witness ==
  /\ lastOp.op = "cashout"
  /\ lastOp.error = "Not enough shares"
  /\ lastOp.id \in MarketIds
  /\ getPositionsByMarket(positions, lastOp.id) # {}

\* C14: a bet whose side is not one of the market's two answers is rejected and
\* creates no wager record: every stored wager names an answer of its market
\* (here even up to letter case).
C14_InvalidSideRejected ==
  \A i \in 1..Len(betRows) :
    ToLower(betRows[i].choice) \in {ToLower(FetchedResult("over")), ToLower(FetchedResult("under"))}

\* C15: a Buy that would purchase no shares is rejected with no state change:
\* with amount <= 0 it is answered 400 "Invalid amount", and with an amount for
\* which sharesForAmount computes 0 shares (on an open market, for one of its
\* answers) it is answered 400 "Amount too small to buy shares".
C15_NoSharesNoTrade ==
  [][ \A u \in Users, id \in IdInputs, side \in SideInputs, amount \in AmountInputs :
        (Handled /\ BetHandler(u, id, side, amount, "none", {}))
        => /\ amount <= 0
                => /\ lastOp'.code = 400 /\ lastOp'.error = "Invalid amount"
                   /\ UNCHANGED AmmState
           /\ ( /\ amount > 0
                /\ id \in Range(activeMarkets)
                /\ market[id].status = "open"
                /\ SideKey(id, side) # NULL
                /\ sharesForAmount(market[id].q1, market[id].q2, SideKey(id, side),
                                   amount) = 0 )
                => /\ lastOp'.code = 400
                   /\ lastOp'.error = "Amount too small to buy shares"
                   /\ UNCHANGED AmmState ]_vars

\* a buy was refused because its amount buys no shares
C15_Witness ==
  /\ lastOp.op = "bet"
  /\ lastOp.code = 400
  /\ lastOp.error = "Amount too small to buy shares"

\* C16: a successful Buy of d shares adds d to the pool of the chosen side and to
\* the user's position on that side, appends exactly one buy record carrying the
\* amount and d, and leaves the other pool, the market's status and result, every
\* other position, the earlier records and every other market unchanged.
C16_BuyFrame ==
  [][ \A u \in Users, id \in MarketIds, side \in Sides, amount \in AmountInputs,
         failSave \in {{}, MarketIds} :
        ( /\ Handled
          /\ lastOp'.op = "bet"
          /\ lastOp'.code = 200
          /\ lastOp'.id = id
          /\ BetHandler(u, id, side, amount, "none", failSave) )
        => LET sideKey == SideKey(id, side)
               d == sharesForAmount(market[id].q1, market[id].q2, sideKey, amount)
               other == IF sideKey = "answer1" THEN "answer2" ELSE "answer1"
           IN /\ d > 0
              /\ PoolOf(market'[id].q1, market'[id].q2, sideKey)
                   = PoolOf(market[id].q1, market[id].q2, sideKey) + d
              /\ PoolOf(market'[id].q1, market'[id].q2, other)
                   = PoolOf(market[id].q1, market[id].q2, other)
              /\ market'[id].status = market[id].status
              /\ market'[id].result = market[id].result
              /\ \A j \in MarketIds \ {id} : market'[j] = market[j]
              /\ Held(positions', u, id, side) = Held(positions, u, id, side) + d
              /\ \A k \in DOMAIN positions \ {<<u, id, side>>} :
                   positions'[k] = positions[k]
              /\ Len(bets') = Len(bets) + 1
              /\ SubSeq(bets', 1, Len(bets)) = bets
              /\ bets'[Len(bets')] = BetRow(u, id, side, amount, d, "buy") ]_vars

\* a buy succeeded on one market while another user holds shares in another
\* market, bought earlier
C16_Witness ==
  /\ lastOp.op = "bet"
  /\ lastOp.code = 200
  /\ Len(bets) = 2
  /\ bets[1].predictionId # lastOp.id
  /\ bets[2].predictionId = lastOp.id
  /\ bets[1].userId # bets[2].userId
  /\ \E k \in DOMAIN positions : k[2] # lastOp.id /\ positions[k] # NoRow

\* the step is a cashout of s shares by u on side of market id answered 200
SellSucceeds(u, id, side, s) ==
  /\ Handled
  /\ lastOp'.op = "cashout"
  /\ lastOp'.code = 200
  /\ lastOp'.id = id
  /\ \E failSave \in {{}, MarketIds} : CashoutHandler(u, id, side, s, "none", failSave)

\* the gross proceeds of the sale on the pools before the step, in thousandths
SellGross(id, side, s) ==
  amountForSell(market[id].q1, market[id].q2, SideKey(id, side), s)

\* the effects of the sale on pools, positions and wager records, and its payout
SellEffect(u, id, side, s) ==
  LET sideKey == SideKey(id, side)
      other == IF sideKey = "answer1" THEN "answer2" ELSE "answer1"
  IN /\ market[id].status = "open"
     /\ sideKey # NULL
     /\ PoolOf(market'[id].q1, market'[id].q2, sideKey)
          = Max(0, PoolOf(market[id].q1, market[id].q2, sideKey) - s)
     /\ PoolOf(market'[id].q1, market'[id].q2, other)
          = PoolOf(market[id].q1, market[id].q2, other)
     /\ Held(positions', u, id, side) = Held(positions, u, id, side) - s
     /\ \A k \in DOMAIN positions \ {<<u, id, side>>} : positions'[k] = positions[k]
     /\ Len(bets') = Len(bets) + 1
     /\ SubSeq(bets', 1, Len(bets)) = bets
     /\ bets'[Len(bets')] = BetRow(u, id, side, lastOp'.payout, s, "sell")
     /\ lastOp'.payout = AfterFee(SellGross(id, side, s))

\* C17 as stated: a successful Sell of s shares lowers the pool of that side by s
\* (not below 0) and the user's position by s, appends exactly one sell record,
\* leaves the other pool and all other positions unchanged, and returns
\* payout = gross * (1 - houseFee) rounded to 2 decimals, which never exceeds gross.
C17_SellPayoutWithinGross ==
  [][ \A u \in Users, id \in MarketIds, side \in SideInputs, s \in ShareInputs :
        SellSucceeds(u, id, side, s)
        => /\ SellEffect(u, id, side, s)
           /\ 10 * lastOp'.payout <= SellGross(id, side, s) ]_vars

\* C17, amended: as above, except that the rounding to 2 decimals may lift the
\* payout above gross, by at most half a cent.
C17_SellFrame ==
  [][ \A u \in Users, id \in MarketIds, side \in SideInputs, s \in ShareInputs :
        SellSucceeds(u, id, side, s)
        => /\ SellEffect(u, id, side, s)
           /\ 10 * lastOp'.payout <= SellGross(id, side, s) + 5 ]_vars

\* a sale succeeded while the user also holds shares of the other side, and it
\* paid out
C17_Witness ==
  /\ lastOp.op = "cashout"
  /\ lastOp.code = 200
  /\ lastOp.payout > 0
  /\ Len(bets) > 0
  /\ bets[Len(bets)].type = "sell"
  /\ \E k \in DOMAIN positions :
       /\ k[2] = lastOp.id
       /\ k[3] # bets[Len(bets)].choice
       /\ positions[k] # NoRow

\* a wager record on the winning side of a market that is resolved in memory
OnWinningSide(row, mkt) ==
  /\ row.predictionId \in DOMAIN mkt
  /\ mkt[row.predictionId].status = "resolved"
  /\ mkt[row.predictionId].result = row.choice

\* C18: a Resolve that pays winning positions marks every buy record of those
\* positions paidOut; a record is paidOut only if it is a buy record on the
\* winning side of a resolved market; no other field of a written record
\* changes, and paidOut never returns to false.
C18_WinnersMarkedPaid ==
  [][ /\ ( /\ Handled
           /\ lastOp'.op = "resolve"
           /\ lastOp'.code = 200 )
         => \A i \in 1..Len(bets') :
              ( /\ bets'[i].type = "buy"
                /\ OnWinningSide(bets'[i], market')
                /\ \E e \in lastOp'.payouts : e.userId = bets'[i].userId )
              => bets'[i].paidOut
      /\ \A i \in 1..Len(bets') :
           bets'[i].paidOut => bets'[i].type = "buy" /\ OnWinningSide(bets'[i], market')
      /\ Len(bets') >= Len(bets)
      /\ \A i \in 1..Len(bets) :
           /\ [bets'[i] EXCEPT !.paidOut = FALSE] = [bets[i] EXCEPT !.paidOut = FALSE]
           /\ bets[i].paidOut => bets'[i].paidOut ]_vars

\* C19: when a Buy, Sell or Resolve is answered 200, the stored row of its market
\* holds the pools, status and result of the in-memory market, also when a
\* storage write throws.
C19_SuccessIsDurable ==
  [][ ( /\ Handled
        /\ lastOp'.code = 200
        /\ lastOp'.op \in {"bet", "cashout", "resolve"} )
      => dbMarkets'[lastOp'.id] = MarketRow(market'[lastOp'.id]) ]_vars

\* the markets a client can see, active or resolved, as (id, market) pairs
KnownMarkets(active, resolved) ==
  {<<r.id, DedupeKey(r)>> : r \in Range(active) \cup Range(resolved)}

\* C20: across creation, resolution, saving of the active list and restart, a
\* market keeps its id, and no id denotes two different markets, open or resolved.
C20_IdsStable ==
  [][ /\ \A a \in KnownMarkets(activePredictions, resolvedPredictions),
            b \in KnownMarkets(activePredictions', resolvedPredictions') :
           a[2] = b[2] => a[1] = b[1]
      /\ \A a, b \in KnownMarkets(activePredictions', resolvedPredictions') :
           a[1] = b[1] => a[2] = b[2] ]_vars

\* the state of the pari-mutuel server that a request can change
SweepState == <<activePredictions, resolvedPredictions, betRows, dbActive, dbResolved>>

\* C21: POST /admin/resolve with an adminKey other than the configured secret is
\* answered 403 "Unauthorized" for every predictionId and result, and changes no
\* market, position, wager or archive state, in either server.
C21_UnauthorizedResolve ==
  [][ \A adminKey \in KeyInputs \ {ADMIN_KEY} :
        /\ \A id \in IdInputs, result \in ResultInputs :
             ( /\ Handled
               /\ lastOp'.op = "resolve"
               /\ lastOp'.id = id
               /\ ResolveHandler(adminKey, id, result, "none") )
             => /\ lastOp'.code = 403
                /\ lastOp'.error = "Unauthorized"
                /\ UNCHANGED AmmState
        /\ \A id \in PredictionIdInputs, result \in SweepResultInputs :
             ( /\ Handled
               /\ lastOp'.op = "resolve"
               /\ lastOp'.id = id
               /\ ManualResolveHandler(adminKey, id, result, "none") )
             => /\ lastOp'.code = 403
                /\ lastOp'.error = "Unauthorized"
                /\ UNCHANGED SweepState ]_vars

\* a resolve with a wrong key was refused on a market in which a position is held
C21_Witness ==
  /\ lastOp.op = "resolve"
  /\ lastOp.code = 403
  /\ lastOp.id \in MarketIds
  /\ lastOp.id \in Range(activeMarkets)
  /\ getPositionsByMarket(positions, lastOp.id) # {}

\* C22: the sweep resolves a market, of any source, only when it has expired: a
\* record the sweep adds to the resolved list is of a market with expires <= now.
C22_SweepOnlyAfterExpiry ==
  [][ ( /\ Len(resolvedPredictions') > Len(resolvedPredictions)
        /\ resolvedPredictions'[1].by = "sweep" )
      => resolvedPredictions'[1].expires <= now ]_vars

\* C23: an expired market is settled by the sweep with the outcome the external
\* collaborator supplies; a fetch that fails does not settle it, so that a later
\* sweep can: every record the sweep archives carries the result of a fetch that
\* did not throw.
C23_SettledWithSuppliedOutcome ==
  [][ ( /\ Len(resolvedPredictions') > Len(resolvedPredictions)
        /\ resolvedPredictions'[1].by = "sweep" )
      => /\ lastFetch'.outcome # "throw"
         /\ resolvedPredictions'[1].result = FetchedResult(lastFetch'.outcome) ]_vars

\* C24: once a market has been resolved, it is no longer listed among the open
\* markets and its entry in the resolved archive has a payout summary whose
\* winner count is the number of entries of its payout list. Stated of the states
\* in which a request can be served (the sweep is idle or suspended in a fetch).
C24_ResolvedIsArchivedNotOpen ==
  pc \in {"idle", "fetch"}
    => \A i \in 1..Len(resolvedPredictions) :
         /\ resolvedPredictions[i].id \notin Ids(activePredictions)
         /\ resolvedPredictions[i].winnerCount = Cardinality(resolvedPredictions[i].winners)

\* C25: in every market state reached by buys and sells the prices of the two
\* answers sum to 1 (up to the last digit kept), and each price reported in a
\* snapshot lies between 0 and 100.
C25_PricesSumToOne ==
  \A id \in MarketIds :
    LET m == market[id]
        sum == priceForSide(m.q1, m.q2, "answer1") + priceForSide(m.q1, m.q2, "answer2")
    IN  /\ sum \in (10000 - 1)..(10000 + 1)
        /\ SnapshotPrices(m).answer1 \in 0..10000
        /\ SnapshotPrices(m).answer2 \in 0..10000
        /\ SnapshotPrices(m).answer1 + SnapshotPrices(m).answer2 = 10000

\* after a buy and a sell the pools of a market differ, and so do its prices
C25_Witness ==
  /\ lastOp.op = "cashout"
  /\ lastOp.code = 200
  /\ market[lastOp.id].q1 # market[lastOp.id].q2
  /\ SnapshotPrices(market[lastOp.id]).answer1 # SnapshotPrices(market[lastOp.id]).answer2

\* a successful sale, by the buyer, of exactly the shares the successful buy of
\* the step before yielded
SoldBack ==
  /\ Handled
  /\ lastOp.op = "bet"
  /\ lastOp.code = 200
  /\ lastOp'.op = "cashout"
  /\ lastOp'.code = 200
  /\ Len(bets) > 0
  /\ bets[Len(bets)].type = "buy"
  /\ Len(bets') = Len(bets) + 1
  /\ bets'[Len(bets')].type = "sell"
  /\ bets'[Len(bets')].userId = bets[Len(bets)].userId
  /\ bets'[Len(bets')].predictionId = bets[Len(bets)].predictionId
  /\ bets'[Len(bets')].choice = bets[Len(bets)].choice
  /\ bets'[Len(bets')].shares = bets[Len(bets)].shares

\* the gross proceeds, in thousandths, of selling back the shares of the last buy
SoldBackGross ==
  SellGross(bets[Len(bets)].predictionId, bets[Len(bets)].choice, bets[Len(bets)].shares)

\* C26 as stated: buying with amount and immediately selling back exactly the
\* shares received returns a gross amount <= amount, and the cash-out payout
\* after the house fee is never more than the amount spent.
C26_RoundTripPayoutWithinAmount ==
  [][ SoldBack => /\ SoldBackGross <= bets[Len(bets)].amount
                  /\ 10 * lastOp'.payout <= bets[Len(bets)].amount ]_vars

\* C26, amended: the gross amount of the round trip is <= amount, and the payout
\* after the house fee, rounded to 2 decimals, exceeds the amount spent by at
\* most half a cent.
C26_RoundTripGrossWithinAmount ==
  [][ SoldBack => /\ SoldBackGross <= bets[Len(bets)].amount
                  /\ 10 * lastOp'.payout <= bets[Len(bets)].amount + 5 ]_vars

\* a round trip on pools that were not empty returned a payout
C26_Witness ==
  /\ lastOp.op = "cashout"
  /\ lastOp.code = 200
  /\ lastOp.payout > 0
  /\ Len(bets) = 2
  /\ bets[1].type = "buy"
  /\ bets[2].type = "sell"
  /\ bets[2].shares = bets[1].shares
  /\ bets[1].amount > 10 * lastOp.payout
  /\ market[1].q1 > 0
  /\ market[1].q2 > 0

\* a request to /bet for an amount on a side of a market reached the pricing
\* function: it bought shares or was rejected because the amount yields none
Priced(u, id, side, amount) ==
  /\ Handled
  /\ lastOp'.op = "bet"
  /\ lastOp'.id = id
  /\ \/ lastOp'.code = 200
     \/ lastOp'.error = "Amount too small to buy shares"
  /\ lastOp'.code = 200
       => /\ bets'[Len(bets')].amount = amount
          /\ bets'[Len(bets')].choice = side
  /\ BetHandler(u, id, side, amount, "none", {})

\* the shares the request obtained
SharesGot == IF lastOp'.code = 200 THEN bets'[Len(bets')].shares ELSE 0

\* the shares the pools of the market before the step yield for an amount
SharesBefore(id, side, amount) ==
  sharesForAmount(market[id].q1, market[id].q2, SideKey(id, side), amount)

\* C27: for fixed pools and liquidity parameter, sharesForSpend is monotonically
\* increasing in amount (a smaller amount never yields more shares than the
\* amount of a request yields), and it returns 0 whenever amount <= 0.
C27_SharesMonotoneInAmount ==
  [][ \A u \in Users, id \in MarketIds, side \in Sides, amount \in PricingAmounts :
        Priced(u, id, side, amount)
        => /\ SharesGot = SharesBefore(id, side, amount)
           /\ \A a1 \in PricingAmounts :
                /\ a1 < amount => SharesBefore(id, side, a1) <= SharesGot
                /\ a1 <= 0 => SharesBefore(id, side, a1) = 0 ]_vars

\* a buy on pools that were not empty yielded more shares than a smaller positive
\* amount would have, and as many as another
C27_Witness ==
  /\ lastOp.op = "bet"
  /\ lastOp.code = 200
  /\ Len(bets) = 1
  /\ bets[1].shares >= 3
  /\ market[1].q1 > bets[1].shares
  /\ market[1].q2 > bets[1].shares
  /\ LET sideKey == SideKey(1, bets[1].choice)
         before == TakeFromPool(market[1], sideKey, bets[1].shares)
     IN  /\ sharesForAmount(before.q1, before.q2, sideKey, bets[1].amount - 1)
              = bets[1].shares
         /\ \E a1 \in 1..bets[1].amount :
              LET less == sharesForAmount(before.q1, before.q2, sideKey, a1)
              IN  0 < less /\ less < bets[1].shares

\* a call of the ledger's remove operation for delta shares of a position
Removed(u, id, side, delta) ==
  /\ Handled
  /\ lastOp'.op = "reducePosition"
  /\ lastOp'.id = id
  /\ lastOp'.error = (IF getPosition(positions, u, id, side) = NoRow
                      THEN "false" ELSE "true")
  /\ positions' = reducePosition(positions, u, id, side, delta)

\* C28: removeShares(userId, marketId, side, delta) fails with InsufficientShares
\* and changes nothing whenever delta exceeds the shares held (it does not clamp
\* the position to 0), and deletes the row when the result is exactly 0.
C28_RemoveMoreThanHeldFails ==
  [][ \A u \in Users, id \in MarketIds, side \in Sides, delta \in ShareDeltas :
        Removed(u, id, side, delta)
        => /\ delta > Held(positions, u, id, side)
                => /\ lastOp'.error \notin {"true", "id"}
                   /\ positions' = positions
           /\ delta = Held(positions, u, id, side)
                => positions'[<<u, id, side>>] = NoRow ]_vars

\* each pool of the market equals the shares all users hold on that side
Conserved(mkt, pos, id) ==
  \A side \in Sides : PoolQ(mkt[id], side) = SharesHeld(pos, id, side, Users)

\* a successful buy or sell on an open market
Traded(id) ==
  /\ Handled
  /\ lastOp'.op \in {"bet", "cashout"}
  /\ lastOp'.code = 200
  /\ lastOp'.id = id
  /\ market[id].status = "open"

C30_LeavesActiveOnlyResolved ==
  [][ \A i \in 1..Len(activePredictions) :
        activePredictions[i].id \notin Ids(activePredictions')
          => activePredictions[i].id \in Ids(resolvedPredictions') ]_vars

\* C31: every wager POST /bet saves is among the bets the settlement of its
\* market reads: no bet is saved on a market whose payouts the sweep has already
\* computed, in particular not while the sweep is suspended in the fetch of a
\* later market.
C31_NoBetAfterSettlement ==
  [][ (lastOp'.op = "bet" /\ Len(betRows') = Len(betRows) + 1)
        => betRows'[Len(betRows')].predictionId \notin Ids(resolvedPredictions) ]_vars

\* a request to /cashout for s shares of a side of a market
CashoutRequested(u, id, side, s) ==
  /\ Handled
  /\ lastOp'.op = "cashout"
  /\ lastOp'.id = id
  /\ \E fail \in {"none", "getPosition", "reducePosition", "saveBet", "enrichMarket"},
        failSave \in {{}, MarketIds} :
       CashoutHandler(u, id, side, s, fail, failSave)

\* C32: a cashout whose side is neither of the market's two answers always fails
\* and changes no pool (nor anything else): no position row has such a side, so
\* the position check rejects the request before the pool of answer2 is touched.
C32_ForeignSideCashoutFails ==
  /\ \A k \in DOMAIN positions : positions[k] # NoRow => k[3] \in Sides
  /\ [][ \A u \in Users, id \in MarketIds, s \in ShareInputs, side \in SideInputs :
           (side \notin {Answer1(id), Answer2(id)} /\ CashoutRequested(u, id, side, s))
           => /\ lastOp'.code # 200
              /\ \A k \in DOMAIN positions' : positions'[k] # NoRow => k[3] \in Sides
              /\ UNCHANGED AmmState ]_vars

\* a cashout was rejected for lack of shares although the user holds, on the side
\* of answer2, as many shares as any request asks for: the request named another
\* side
C32_Witness ==
  /\ lastOp.op = "cashout"
  /\ lastOp.code = 400
  /\ lastOp.error = "Not enough shares"
  /\ market[1].status = "open"
  /\ market[1].q2 >= SetMax(ShareInputs)
  /\ Held(positions, "u1", 1, Answer2(1)) >= SetMax(ShareInputs)

\* a settlement, by the sweep or by /admin/resolve: a record is put in front of
\* the archive
Settled == Len(resolvedPredictions') = Len(resolvedPredictions) + 1

RECURSIVE SumPayouts(_)
SumPayouts(S) ==
  IF S = {} THEN 0
  ELSE LET w == CHOOSE x \in S : TRUE
       IN  w.payout + SumPayouts(S \ {w})

\* the payouts of the settlement's record are those of the pari-mutuel rule:
\* one for each stored bet on the market whose choice matches the result, of
\* (amount / winnersTotal) * totalPot * (1 - HOUSE_FEE) rounded to 2 decimals;
\* none, and no bet marked, when no bet matches
PariMutuel ==
  LET rec == resolvedPredictions'[1]
      all == getBetsByPrediction(betRows, rec.id)
      won == {i \in all : ToLower(betRows[i].choice) = ToLower(rec.result)}
      totalPot == SumOver(betRows, all)
      winnersTotal == SumOver(betRows, won)
  IN  /\ {w.betId : w \in rec.winners} = won
      /\ Cardinality(rec.winners) = Cardinality(won)
      /\ \A w \in rec.winners :
           LET exact == betRows[w.betId].amount * totalPot * (100 - HouseFeePct)
           IN  /\ 1000 * winnersTotal * w.payout <= exact + 500 * winnersTotal
               /\ 1000 * winnersTotal * w.payout > exact - 500 * winnersTotal
      /\ won = {} => (rec.winners = {} /\ betRows' = betRows)

\* the bets on the settled market, in thousandths
SettledPot == SumOver(betRows, getBetsByPrediction(betRows, resolvedPredictions'[1].id))

\* C33 as stated: each winner's payout is (bet.amount / winnersTotal) * totalPot
\* * (1 - HOUSE_FEE) rounded to 2 decimals and the sum of all payouts never
\* exceeds totalPot; when no bet matches the result no payout is made and no bet
\* is marked paid.
C33_PayoutsWithinPot ==
  [][ Settled => /\ PariMutuel
                 /\ 10 * SumPayouts(resolvedPredictions'[1].winners) <= SettledPot ]_vars

\* C33, amended: as above, except that the sum of all payouts is bounded by
\* totalPot * (1 - HOUSE_FEE) plus half a cent for each winner, which the rounding
\* to 2 decimals can add.
C33_PayoutsPariMutuel ==
  [][ Settled
      => /\ PariMutuel
         /\ 1000 * SumPayouts(resolvedPredictions'[1].winners)
              <= (100 - HouseFeePct) * SettledPot
                   + 500 * Cardinality(resolvedPredictions'[1].winners) ]_vars

\* a market with a winning and a losing bet has been settled and the winner
\* paid more than the stake
C33_Witness ==
  /\ Len(resolvedPredictions) = 1
  /\ Len(betRows) = 2
  /\ betRows[1].choice # betRows[2].choice
  /\ Cardinality(resolvedPredictions[1].winners) = 1
  /\ \A w \in resolvedPredictions[1].winners :
       /\ 10 * w.payout > w.amount
       /\ betRows[w.betId].paidOut

\* the markets of a list or of the rows of the table, without their ids (which
\* the table assigns)
MarketsOf(rows) == [i \in 1..Len(rows) |-> <<rows[i].source, rows[i].tag, rows[i].expires>>]

\* C34: saveActive(preds) replaces the stored active markets atomically: after
\* it returns or throws, storage holds the complete previous set or the complete
\* new set, never an empty or partial one.
C34_SaveActiveAtomic ==
  [][ MarketsOf(dbActive'.rows)
        \in {MarketsOf(dbActive.rows), MarketsOf(activePredictions')} ]_vars

====
